---------------------------- MODULE Spec2Model ----------------------------
(***************************************************************************)
(* A model of sonarr-autoimport-go: the filename parser of main.go         *)
(* (parseAnimeFilename and its helpers), the per-file reconciliation       *)
(* workflow against the Sonarr catalog (processAnimeFile), the batch loop  *)
(* (processAnimeFiles), and the second program variant (scanAndImport /    *)
(* processVideoFile).                                                      *)
(*                                                                         *)
(* Strings are sequences of one-character strings, so that trimming,       *)
(* lower-casing and regular-expression matching are computed character by  *)
(* character, as the Go library computes them.                             *)
(***************************************************************************)
EXTENDS Integers, Sequences, FiniteSets, TLC

(***************************************************************************)
(* Characters and strings (package strings / unicode, ASCII part).         *)
(***************************************************************************)
Upper == <<"A","B","C","D","E","F","G","H","I","J","K","L","M",
           "N","O","P","Q","R","S","T","U","V","W","X","Y","Z">>

Lower == <<"a","b","c","d","e","f","g","h","i","j","k","l","m",
           "n","o","p","q","r","s","t","u","v","w","x","y","z">>

Digits == <<"0","1","2","3","4","5","6","7","8","9">>

\* \s of Go's regexp (RE2): [\t\n\f\r ].
SpaceClass == {" ", "\t", "\n", "\f", "\r"}

\* unicode.IsSpace, used by strings.TrimSpace: the same characters on the
\* model's alphabet (and \v, U+0085, U+00A0, which no name of the model holds).
WhiteSpace == SpaceClass

DigitClass == {Digits[k] : k \in 1..Len(Digits)}

ToLowerCh(c) ==
    IF \E k \in 1..Len(Upper) : Upper[k] = c
    THEN Lower[CHOOSE k \in 1..Len(Upper) : Upper[k] = c]
    ELSE c

\* strings.ToLower
ToLower(s) == [k \in 1..Len(s) |-> ToLowerCh(s[k])]

\* s[from..to-1], positions counted from 1 (Go's s[from-1:to-1]).
Slice(s, from, to) == [k \in 1..(to - from) |-> s[from + k - 1]]

RECURSIVE TrimLeft(_)
TrimLeft(s) ==
    IF s # <<>> /\ Head(s) \in WhiteSpace THEN TrimLeft(Tail(s)) ELSE s

RECURSIVE TrimRight(_)
TrimRight(s) ==
    IF s # <<>> /\ s[Len(s)] \in WhiteSpace
    THEN TrimRight(SubSeq(s, 1, Len(s) - 1))
    ELSE s

\* strings.TrimSpace
TrimSpace(s) == TrimRight(TrimLeft(s))

\* strings.Contains
Contains(s, sub) ==
    \E k \in 1..(Len(s) - Len(sub) + 1) : Slice(s, k, k + Len(sub)) = sub

\* strings.TrimSuffix
TrimSuffix(s, suffix) ==
    IF Len(suffix) <= Len(s) /\ Slice(s, Len(s) - Len(suffix) + 1, Len(s) + 1) = suffix
    THEN SubSeq(s, 1, Len(s) - Len(suffix))
    ELSE s

\* The position of the last c in s, 0 when there is none.
LastIndex(s, c) ==
    IF \E k \in 1..Len(s) : s[k] = c
    THEN CHOOSE k \in 1..Len(s) : s[k] = c /\ \A j \in (k + 1)..Len(s) : s[j] # c
    ELSE 0

\* filepath.Ext: the suffix from the last dot of the last path element.
Ext(path) ==
    LET dot == LastIndex(path, ".")
        sep == LastIndex(path, "/")
    IN IF dot > sep THEN Slice(path, dot, Len(path) + 1) ELSE <<>>

\* filepath.Base of a cleaned path: the last path element.
Base(path) == Slice(path, LastIndex(path, "/") + 1, Len(path) + 1)

\* filepath.Dir of a cleaned absolute path: all but the last element.
Dir(path) ==
    LET sep == LastIndex(path, "/")
    IN IF sep = 0 THEN <<".">> ELSE IF sep = 1 THEN <<"/">> ELSE SubSeq(path, 1, sep - 1)

\* filepath.Join of two cleaned elements: empty elements are ignored.
Join(a, b) ==
    IF a = <<>> THEN b
    ELSE IF b = <<>> THEN a
    ELSE IF a[Len(a)] = "/" THEN a \o b
    ELSE a \o <<"/">> \o b

\* strconv.Atoi of a run of decimal digits (what \d+ captures). The value
\* is out of range, an error, only beyond 2^63-1: a name of the model holds
\* far fewer digits, and every run of up to 18 digits is in range.
RECURSIVE DigitsValue(_)
DigitsValue(ds) ==
    IF ds = <<>> THEN 0
    ELSE 10 * DigitsValue(SubSeq(ds, 1, Len(ds) - 1))
         + (CHOOSE k \in 0..9 : Digits[k + 1] = ds[Len(ds)])

Atoi(ds) ==
    IF ds # <<>> /\ Len(ds) <= 18 /\ \A k \in 1..Len(ds) : ds[k] \in DigitClass
    THEN [ok |-> TRUE, val |-> DigitsValue(ds)]
    ELSE [ok |-> FALSE, val |-> 0]

(***************************************************************************)
(* Regular expressions (package regexp). A pattern is written as the       *)
(* syntax tree regexp.Compile builds from its text: a sequence of items,   *)
(*   Cls   a character class with a repetition, greedy or lazy,            *)
(*   Grp   a group of alternatives, capturing (idx > 0) or not (idx = -1), *)
(*         optional or not,                                                *)
(*   Bol / Eol   ^ and $ (no multi-line flag: the text's two ends).        *)
(* Matching is leftmost-first, as regexp's: the leftmost start, and among  *)
(* the matches there the one a backtracking search finds first.            *)
(***************************************************************************)
\* An unbounded repetition's max.
Inf == 0 - 1

Cls(set, neg, min, max, greedy) ==
    [t |-> "cls", set |-> set, neg |-> neg, min |-> min, max |-> max, greedy |-> greedy]

\* One literal character; Lit(s) is a literal string.
Ch(c) == Cls({c}, FALSE, 1, 1, TRUE)

Lit(s) == [k \in 1..Len(s) |-> Ch(s[k])]

\* . : any character but a newline.
AnyChar == {"\n"}

Grp(idx, alts, opt) == [t |-> "grp", idx |-> idx, alts |-> alts, opt |-> opt]

Bol == [t |-> "bol"]

Eol == [t |-> "eol"]

\* regexp.Compile: valid is FALSE for a text Compile rejects; n is NumSubexp.
Regex(items, n) == [valid |-> TRUE, items |-> items, n |-> n]

Malformed == [valid |-> FALSE, items |-> <<>>, n |-> 0]

NoMatch == [ok |-> FALSE, end |-> 0, caps |-> <<>>]

InClass(it, c) == IF it.neg THEN c \notin it.set ELSE c \in it.set

\* How many characters from position i on are in the class, up to its max.
RECURSIVE ClassRun(_, _, _, _)
ClassRun(it, s, i, n) ==
    IF i + n <= Len(s) /\ (it.max = Inf \/ n < it.max) /\ InClass(it, s[i + n])
    THEN ClassRun(it, s, i, n + 1)
    ELSE n

\* The first of two attempts that matches (the second is tried only then).
OrElse(r, other) == IF r.ok THEN r ELSE other

RECURSIVE MatchItems(_, _, _, _)
RECURSIVE TryCounts(_, _, _, _, _, _, _)
RECURSIVE TryAlts(_, _, _, _, _, _)

\* The items matched against s from position i: the end of the match and
\* the capture groups' spans <<start, end>> (<<0, 0>>: the group took no part).
MatchItems(items, s, i, caps) ==
    IF items = <<>> THEN [ok |-> TRUE, end |-> i, caps |-> caps]
    ELSE LET it == Head(items)
             rest == Tail(items)
         IN CASE it.t = "bol" ->
                   IF i = 1 THEN MatchItems(rest, s, i, caps) ELSE NoMatch
              [] it.t = "eol" ->
                   IF i = Len(s) + 1 THEN MatchItems(rest, s, i, caps) ELSE NoMatch
              [] it.t = "close" ->
                   MatchItems(rest, s, i,
                              IF it.idx > 0
                              THEN [caps EXCEPT ![it.idx] = <<it.start, i>>]
                              ELSE caps)
              [] it.t = "cls" ->
                   LET n == ClassRun(it, s, i, 0)
                   IN IF n < it.min THEN NoMatch
                      ELSE IF it.greedy
                      THEN TryCounts(rest, s, i, caps, n, it.min, -1)
                      ELSE TryCounts(rest, s, i, caps, it.min, n, 1)
              [] it.t = "grp" ->
                   OrElse(TryAlts(it, 1, rest, s, i, caps),
                          IF it.opt THEN MatchItems(rest, s, i, caps) ELSE NoMatch)

\* A repetition of k, k+step, ... , last characters: the first count after
\* which the rest matches (greedy counts down, lazy counts up).
TryCounts(rest, s, i, caps, k, last, step) ==
    OrElse(MatchItems(rest, s, i + k, caps),
           IF k = last THEN NoMatch
           ELSE TryCounts(rest, s, i, caps, k + step, last, step))

\* The alternatives of a group in order: the first after which the rest matches.
TryAlts(g, a, rest, s, i, caps) ==
    IF a > Len(g.alts) THEN NoMatch
    ELSE OrElse(MatchItems(g.alts[a] \o <<[t |-> "close", idx |-> g.idx, start |-> i]>>
                           \o rest, s, i, caps),
                TryAlts(g, a + 1, rest, s, i, caps))

NotFound == [ok |-> FALSE, start |-> 0, end |-> 0, caps |-> <<>>]

\* A match from position from, as a match of the text.
MatchAt(r, from) ==
    IF r.ok THEN [ok |-> TRUE, start |-> from, end |-> r.end, caps |-> r.caps]
    ELSE NotFound

\* The leftmost match starting at position from or later: [ok, start, end, caps].
RECURSIVE FindFrom(_, _, _)
FindFrom(re, s, from) ==
    IF from > Len(s) + 1 THEN NotFound
    ELSE OrElse(MatchAt(MatchItems(re.items, s, from, [g \in 1..re.n |-> <<0, 0>>]), from),
                FindFrom(re, s, from + 1))

CapText(s, span) == IF span = <<0, 0>> THEN <<>> ELSE Slice(s, span[1], span[2])

\* A match as FindStringSubmatch returns it: nil (here <<>>) without a match,
\* else the whole match followed by the groups.
Submatches(s, m) ==
    IF ~m.ok THEN <<>>
    ELSE <<Slice(s, m.start, m.end)>> \o [g \in 1..Len(m.caps) |-> CapText(s, m.caps[g])]

\* Regexp.FindStringSubmatch. Go's matches[g] is matches[g + 1] here.
FindStringSubmatch(re, s) == Submatches(s, FindFrom(re, s, 1))

\* Regexp.Expand of a replacement template, written as regexp parses it: a
\* sequence of literal characters TLit(c) and of references TRef(g) to group
\* g (g = 0: the whole match; a name that is no group, as "1E" in "$1E",
\* is TRef(NoGroup) and expands to nothing).
TLit(c) == [lit |-> c]

TRef(g) == [ref |-> g]

NoGroup == 0 - 1

TText(s) == [k \in 1..Len(s) |-> TLit(s[k])]

RECURSIVE Expand(_, _, _)
Expand(template, s, m) ==
    IF template = <<>> THEN <<>>
    ELSE LET p == Head(template)
             text == IF "lit" \in DOMAIN p THEN <<p.lit>>
                     ELSE IF p.ref = 0 THEN Slice(s, m.start, m.end)
                     ELSE IF p.ref \in 1..Len(m.caps) THEN CapText(s, m.caps[p.ref])
                     ELSE <<>>
         IN text \o Expand(Tail(template), s, m)

\* Regexp.ReplaceAllString: the loop of regexp.replaceAll. An empty match
\* right after the previous match is not replaced; the search always advances.
RECURSIVE ReplaceFrom(_, _, _, _, _)
RECURSIVE ReplaceMatch(_, _, _, _, _, _)
ReplaceFrom(re, s, template, searchPos, lastMatchEnd) ==
    IF searchPos > Len(s) + 1 THEN Slice(s, lastMatchEnd, Len(s) + 1)
    ELSE ReplaceMatch(re, s, template, searchPos, lastMatchEnd, FindFrom(re, s, searchPos))

ReplaceMatch(re, s, template, searchPos, lastMatchEnd, m) ==
    IF ~m.ok THEN Slice(s, lastMatchEnd, Len(s) + 1)
    ELSE Slice(s, lastMatchEnd, m.start)
         \o (IF m.end > lastMatchEnd \/ m.start = 1
             THEN Expand(template, s, m) ELSE <<>>)
         \o ReplaceFrom(re, s, template,
                        IF m.end > searchPos THEN m.end ELSE searchPos + 1,
                        m.end)

ReplaceAllString(re, s, template) == ReplaceFrom(re, s, template, 1, 1)

(***************************************************************************)
(* Configuration (main.go: Config, createDefaultConfig). The patterns are  *)
(* the syntax trees of the texts createDefaultConfig writes.               *)
(***************************************************************************)
Some(set) == Cls(set, FALSE, 1, Inf, TRUE)

Many(set) == Cls(set, FALSE, 0, Inf, TRUE)

Cap(idx, items) == Grp(idx, <<items>>, FALSE)

\* [\s_]
SpaceOrUnderscore == SpaceClass \cup {"_"}

\* (.+?) as group idx
LazyAny(idx) == Cap(idx, <<Cls(AnyChar, TRUE, 1, Inf, FALSE)>>)

\* (\d+) as group idx
Number(idx) == Cap(idx, <<Some(DigitClass)>>)

\* .*$
ToTheEnd == <<Cls(AnyChar, TRUE, 0, Inf, TRUE), Eol>>

AnimePattern(regex, titleGroup, seasonGroup, episodeGroup) ==
    [Pattern |-> regex, TitleGroup |-> titleGroup,
     SeasonGroup |-> seasonGroup, EpisodeGroup |-> episodeGroup]

\* ^(.+?)[\s_]+(\d+)(?:nd|rd|th)?[\s_]+Season[\s_]*\[(\d+)\]
OrdinalSeasonPattern ==
    Regex(<<Bol, LazyAny(1), Some(SpaceOrUnderscore), Number(2),
            Grp(0 - 1, <<Lit(<<"n","d">>), Lit(<<"r","d">>), Lit(<<"t","h">>)>>, TRUE),
            Some(SpaceOrUnderscore)>>
          \o Lit(<<"S","e","a","s","o","n">>)
          \o <<Many(SpaceOrUnderscore), Ch("["), Number(3), Ch("]")>>, 3)

\* ^(.+?)[\s_]+Season[\s_]+(\d+)[\s_]*\[(\d+)\]
SeasonNumberPattern ==
    Regex(<<Bol, LazyAny(1), Some(SpaceOrUnderscore)>>
          \o Lit(<<"S","e","a","s","o","n">>)
          \o <<Some(SpaceOrUnderscore), Number(2), Many(SpaceOrUnderscore),
               Ch("["), Number(3), Ch("]")>>, 3)

\* ^(.+?)[\s_]*\[(\d+)\]
BracketPattern ==
    Regex(<<Bol, LazyAny(1), Many(SpaceOrUnderscore), Ch("["), Number(2), Ch("]")>>, 2)

\* ^(.+?)[\s_]+S(\d+)E(\d+)
SxxExxPattern ==
    Regex(<<Bol, LazyAny(1), Some(SpaceOrUnderscore), Ch("S"), Number(2),
            Ch("E"), Number(3)>>, 3)

DefaultAnimePatterns ==
    <<AnimePattern(OrdinalSeasonPattern, 1, 2, 3),
      AnimePattern(SeasonNumberPattern, 1, 2, 3),
      AnimePattern(BracketPattern, 1, 0, 2),
      AnimePattern(SxxExxPattern, 1, 2, 3)>>

\* \[(\d+)\]   E(\d+)   Episode\s+(\d+)   Ep\s*(\d+)
DefaultEpisodePatterns ==
    <<Regex(<<Ch("["), Number(1), Ch("]")>>, 1),
      Regex(<<Ch("E"), Number(1)>>, 1),
      Regex(Lit(<<"E","p","i","s","o","d","e">>) \o <<Some(SpaceClass), Number(1)>>, 1),
      Regex(Lit(<<"E","p">>) \o <<Many(SpaceClass), Number(1)>>, 1)>>

DefaultQualityPatterns ==
    <<<<"1","0","8","0","p">>, <<"7","2","0","p">>, <<"4","8","0","p">>,
      <<"W","E","B","R","i","p">>, <<"B","l","u","R","a","y">>, <<"D","V","D","R","i","p">>>>

\* \[([^\]]+)\]$   \(([^)]+)\)$
DefaultGroupPatterns ==
    <<Regex(<<Ch("["), Cap(1, <<Cls({"]"}, TRUE, 1, Inf, TRUE)>>), Ch("]"), Eol>>, 1),
      Regex(<<Ch("("), Cap(1, <<Cls({")"}, TRUE, 1, Inf, TRUE)>>), Ch(")"), Eol>>, 1)>>

Transform(search, replace) == [Search |-> search, Replace |-> replace]

\* _ -> " "    \. -> " "    \s+ -> " "    ^\s+|\s+$ -> ""
DefaultTransforms ==
    <<Transform(Regex(<<Ch("_")>>, 0), TText(<<" ">>)),
      Transform(Regex(<<Ch(".")>>, 0), TText(<<" ">>)),
      Transform(Regex(<<Some(SpaceClass)>>, 0), TText(<<" ">>)),
      Transform(Regex(<<Grp(0 - 1, << <<Bol, Some(SpaceClass)>>,
                                     <<Some(SpaceClass), Eol>> >>, FALSE)>>, 0), <<>>)>>

DefaultParsing ==
    [AnimePatterns |-> DefaultAnimePatterns,
     EpisodePatterns |-> DefaultEpisodePatterns,
     QualityPatterns |-> DefaultQualityPatterns,
     GroupPatterns |-> DefaultGroupPatterns]

\* The Sonarr section of Settings.json once the environment is expanded into
\* it. URL and APIKey are whatever the environment holds: set, or empty.
SonarrSection(url, apikey) ==
    [URL |-> url, APIKey |-> apikey,
     DownloadsFolder |-> <<"/","d","o","w","n","l","o","a","d","s">>,
     QualityProfile |-> 1, LanguageProfile |-> 1,
     RootFolder |-> <<"/","t","v">>]

SonarrURL == <<"h","t","t","p",":","/","/","s","o","n","a","r","r",":","8","9","8","9">>

SonarrAPIKey == <<"k","e","y">>

DefaultConfig ==
    [Sonarr |-> SonarrSection(SonarrURL, SonarrAPIKey),
     Parsing |-> DefaultParsing,
     Transforms |-> DefaultTransforms]

\* Settings.json edited to hold no transforms: names reach the patterns raw.
NoTransformsConfig == [DefaultConfig EXCEPT !.Transforms = <<>>]

\* Settings.json with SONARR_API_KEY unset: ${SONARR_API_KEY} expands to "".
NoKeyConfig == [DefaultConfig EXCEPT !.Sonarr = SonarrSection(SonarrURL, <<>>)]

(***************************************************************************)
(* The filename parser (main.go: parseAnimeFilename and its helpers).      *)
(* Every operator takes the configuration it reads as cfg, the global      *)
(* config of the program.                                                  *)
(***************************************************************************)
\* A loop that returns at the rule that does not compile.
RECURSIVE returnAtInvalid(_, _, _)
returnAtInvalid(transforms, k, result) ==
    IF k > Len(transforms) \/ ~transforms[k].Search.valid THEN result
    ELSE returnAtInvalid(transforms, k + 1,
             ReplaceAllString(transforms[k].Search, result, transforms[k].Replace))

RECURSIVE applyTransformsFrom(_, _, _)
applyTransformsFrom(transforms, k, result) ==
    IF k > Len(transforms) THEN result
    ELSE LET transform == transforms[k]
         IN IF ~transform.Search.valid
            THEN applyTransformsFrom(transforms, k + 1, result)
            ELSE applyTransformsFrom(transforms, k + 1,
                     ReplaceAllString(transform.Search, result, transform.Replace))

applyTransforms(cfg, input) == applyTransformsFrom(cfg.Transforms, 1, input)

\* \s*\[\d+\].*$   \s*[Ee]p?\s*\d+.*$   \s*[Ee]pisode\s*\d+.*$   \s*S\d+E\d+.*$
TitleStripPatterns ==
    <<Regex(<<Many(SpaceClass), Ch("["), Some(DigitClass), Ch("]")>> \o ToTheEnd, 0),
      Regex(<<Many(SpaceClass), Cls({"E", "e"}, FALSE, 1, 1, TRUE),
              Cls({"p"}, FALSE, 0, 1, TRUE), Many(SpaceClass), Some(DigitClass)>>
            \o ToTheEnd, 0),
      Regex(<<Many(SpaceClass), Cls({"E", "e"}, FALSE, 1, 1, TRUE)>>
            \o Lit(<<"p","i","s","o","d","e">>)
            \o <<Many(SpaceClass), Some(DigitClass)>> \o ToTheEnd, 0),
      Regex(<<Many(SpaceClass), Ch("S"), Some(DigitClass), Ch("E"), Some(DigitClass)>>
            \o ToTheEnd, 0)>>

RECURSIVE extractTitleFrom(_, _)
extractTitleFrom(k, title) ==
    IF k > Len(TitleStripPatterns) THEN title
    ELSE extractTitleFrom(k + 1,
             IF TitleStripPatterns[k].valid
             THEN ReplaceAllString(TitleStripPatterns[k], title, <<>>)
             ELSE title)

extractTitle(filename) == TrimSpace(extractTitleFrom(1, filename))

\* A pattern's match, nil (<<>>) when the pattern does not compile.
matchOf(regex, s) == IF regex.valid THEN FindStringSubmatch(regex, s) ELSE <<>>

\* The number a match's first group holds, if it has one and it parses.
episodeOf(matches) ==
    IF Len(matches) >= 2 THEN Atoi(matches[2]) ELSE [ok |-> FALSE, val |-> 0]

valueOr(n, other) == IF n.ok THEN n.val ELSE other

RECURSIVE extractEpisodeFrom(_, _, _)
extractEpisodeFrom(patterns, k, filename) ==
    IF k > Len(patterns) THEN 0
    ELSE valueOr(episodeOf(matchOf(patterns[k], filename)),
                 extractEpisodeFrom(patterns, k + 1, filename))

extractEpisode(cfg, filename) ==
    extractEpisodeFrom(cfg.Parsing.EpisodePatterns, 1, filename)

Unknown == <<"U","n","k","n","o","w","n">>

RECURSIVE extractQualityFrom(_, _, _)
extractQualityFrom(patterns, k, filename) ==
    IF k > Len(patterns) THEN Unknown
    ELSE IF Contains(ToLower(filename), ToLower(patterns[k])) THEN patterns[k]
    ELSE extractQualityFrom(patterns, k + 1, filename)

extractQuality(cfg, filename) ==
    extractQualityFrom(cfg.Parsing.QualityPatterns, 1, filename)

groupOr(matches, other) == IF Len(matches) >= 2 THEN matches[2] ELSE other

RECURSIVE extractGroupFrom(_, _, _)
extractGroupFrom(patterns, k, filename) ==
    IF k > Len(patterns) THEN Unknown
    ELSE groupOr(matchOf(patterns[k], filename),
                 extractGroupFrom(patterns, k + 1, filename))

extractGroup(cfg, filename) ==
    extractGroupFrom(cfg.Parsing.GroupPatterns, 1, filename)

\* The body of the loop over config.Parsing.AnimePatterns for a pattern
\* whose match has a title group: the record it leaves.
fromPattern(pattern, matches, anime) ==
    LET season == IF pattern.SeasonGroup > 0 /\ Len(matches) > pattern.SeasonGroup
                  THEN Atoi(matches[pattern.SeasonGroup + 1])
                  ELSE [ok |-> FALSE, val |-> 0]
        episode == IF pattern.EpisodeGroup > 0 /\ Len(matches) > pattern.EpisodeGroup
                   THEN Atoi(matches[pattern.EpisodeGroup + 1])
                   ELSE [ok |-> FALSE, val |-> 0]
    IN [anime EXCEPT !.Title = TrimSpace(matches[pattern.TitleGroup + 1]),
                     !.Season = valueOr(season, @),
                     !.Episode = valueOr(episode, @)]

patternApplies(pattern, matches) == Len(matches) > pattern.TitleGroup

\* A loop without its break: a later pattern that yields a title overrides.
lastMatchWins(pattern, matches, anime, other) ==
    IF other.Title # <<>> THEN other
    ELSE IF patternApplies(pattern, matches) THEN fromPattern(pattern, matches, anime)
    ELSE other

matchedOr(pattern, matches, anime, other) ==
    IF patternApplies(pattern, matches) THEN fromPattern(pattern, matches, anime)
    ELSE other

\* The loop over config.Parsing.AnimePatterns: the first pattern that is
\* valid and whose match has a title group ends the loop (break), whatever
\* the title it captured.
RECURSIVE tryAnimePatterns(_, _, _, _)
tryAnimePatterns(patterns, k, cleanName, anime) ==
    IF k > Len(patterns) THEN anime
    ELSE matchedOr(patterns[k], matchOf(patterns[k].Pattern, cleanName), anime,
                   tryAnimePatterns(patterns, k + 1, cleanName, anime))

\* Lines 498-502: the manual extraction for a record left without a title.
manualExtraction(cfg, cleanName, matched) ==
    IF matched.Title = <<>>
    THEN [matched EXCEPT !.Title = extractTitle(cleanName),
                         !.Episode = extractEpisode(cfg, cleanName)]
    ELSE matched

newAnime(filename, filePath) ==
    [OriginalFilename |-> filename, FilePath |-> filePath,
     Title |-> <<>>, Season |-> 1, Episode |-> 0,
     Quality |-> <<>>, Group |-> <<>>, Year |-> 0]

\* Line 464: the name the patterns see.
cleanNameOf(cfg, filename) == applyTransforms(cfg, TrimSuffix(filename, Ext(filename)))

extractFromClean(cfg, cleanName, new) ==
    manualExtraction(cfg, cleanName,
                     tryAnimePatterns(cfg.Parsing.AnimePatterns, 1, cleanName, new))

withQualityAndGroup(cfg, filename, rec) ==
    [rec EXCEPT !.Quality = extractQuality(cfg, filename),
                !.Group = extractGroup(cfg, filename)]

\* parseAnimeFilename up to its validation: the record as extraction leaves it.
extractRecord(cfg, filename, filePath) ==
    withQualityAndGroup(cfg, filename,
        extractFromClean(cfg, cleanNameOf(cfg, filename), newAnime(filename, filePath)))

\* A validation that looks at the title alone.
titleOnly(rec) == rec.Title = <<>>

\* The validation that ends parseAnimeFilename: TRUE is the error return.
Unresolvable(rec) == rec.Title = <<>> \/ rec.Episode = 0

validated(rec) == [ok |-> ~Unresolvable(rec), anime |-> rec]

\* parseAnimeFilename: ok = FALSE is the error return (the record is then nil
\* in the program; the model keeps what extraction found).
parseAnimeFilename(cfg, filename, filePath) ==
    validated(extractRecord(cfg, filename, filePath))

(***************************************************************************)
(* The second program variant (src/unnamed/part_000): its configuration    *)
(* and its per-file helpers.                                               *)
(***************************************************************************)
\* Series (\d+) -     ->  "S$1E"         ($1E names no group)
\* Season (\d+) Episode (\d+)  ->  "S$1E$2"
\* \.(\d{4})\.        ->  ".$1."
\* ^(.+?) - (\d{4})\.(\d{2})\.(\d{2}) -   ->  "$1 $2-$3-$4 "
NDigits(idx, n) == Cap(idx, <<Cls(DigitClass, FALSE, n, n, TRUE)>>)

BasicTransforms ==
    <<Transform(Regex(Lit(<<"S","e","r","i","e","s"," ">>) \o <<Number(1)>> \o Lit(<<" ","-"," ">>), 1),
                <<TLit("S"), TRef(NoGroup)>>),
      Transform(Regex(Lit(<<"S","e","a","s","o","n"," ">>) \o <<Number(1)>> \o Lit(<<" ","E","p","i","s","o","d","e"," ">>)
                      \o <<Number(2)>>, 2),
                <<TLit("S"), TRef(NoGroup), TRef(2)>>),
      Transform(Regex(<<Ch("."), NDigits(1, 4), Ch(".")>>, 1),
                <<TLit("."), TRef(1), TLit(".")>>),
      Transform(Regex(<<Bol, LazyAny(1)>> \o Lit(<<" ","-"," ">>)
                      \o <<NDigits(2, 4), Ch("."), NDigits(3, 2), Ch("."), NDigits(4, 2)>>
                      \o Lit(<<" ","-"," ">>), 4),
                <<TRef(1), TLit(" "), TRef(2), TLit("-"), TRef(3), TLit("-"),
                  TRef(4), TLit(" ")>>)>>

BasicConfig ==
    [Sonarr |-> [URL |-> SonarrURL, APIKey |-> SonarrAPIKey,
                 DownloadsFolder |-> <<"/","m","e","d","i","a">>,
                 MappingPath |-> <<"/","d","o","w","n","l","o","a","d","s">>],
     Transforms |-> BasicTransforms]

\* filepath.Rel(base, target) for a target below base, as every walked file
\* is: the path from base down to it.
Rel(base, target) ==
    IF Len(target) > Len(base) + 1 /\ SubSeq(target, 1, Len(base) + 1) = base \o <<"/">>
    THEN [ok |-> TRUE, rel |-> Slice(target, Len(base) + 2, Len(target) + 1)]
    ELSE [ok |-> FALSE, rel |-> <<>>]

convertToMappingPath(cfg, localPath) ==
    LET r == Rel(cfg.Sonarr.DownloadsFolder, localPath)
    IN IF ~r.ok THEN localPath ELSE Join(cfg.Sonarr.MappingPath, r.rel)

(***************************************************************************)
(* The environment: the downloads folder and the Sonarr catalog, a black   *)
(* box behind its HTTP API.                                                *)
(***************************************************************************)
\* How many video files a walk of the downloads folder finds at most.
MaxFiles == 2

\* How many scans a daemon's run is followed for.
MaxScans == 3

\* The names a downloads folder may hold, in the order filepath.WalkDir
\* yields them (lexical, by byte).
FileNames ==
    <<<<"O","t","h","e","r"," ","S","0","2","E","0","3"," ","7","2","0","p",".","m","k","v">>,
      <<"S","h","o","w"," ","[","0","0","]",".","m","k","v">>,
      <<"S","h","o","w"," ","[","0","1","]",".","m","k","v">>,
      <<"S","h","o","w"," ","[","0","2","]",".","m","k","v">>,
      <<"[","0","3","]"," ","S","h","o","w",".","m","k","v">>>>

RECURSIVE SortedSeq(_)
SortedSeq(S) ==
    IF S = {} THEN <<>>
    ELSE LET m == CHOOSE x \in S : \A y \in S : x <= y
         IN <<m>> \o SortedSeq(S \ {m})

\* findVideoFiles: the video files below rootPath, in walk order.
Listings(rootPath) ==
    {[k \in 1..Cardinality(S) |-> Join(rootPath, FileNames[SortedSeq(S)[k]])] :
        S \in {T \in SUBSET (1..Len(FileNames)) : Cardinality(T) <= MaxFiles}}

\* What GET /series/lookup may return (SeriesLookup objects).
ShowCandidate ==
    [Title |-> <<"S","h","o","w">>, SortTitle |-> <<"s","h","o","w">>,
     Status |-> "continuing", Overview |-> "overview-a", Network |-> "net-a",
     Images |-> <<[CoverType |-> "poster", URL |-> "poster-a"]>>,
     Seasons |-> <<[SeasonNumber |-> 1, Monitored |-> TRUE]>>,
     Year |-> 2020, TvdbID |-> 101, TitleSlug |-> <<"s","h","o","w">>,
     Genres |-> <<"Anime">>]

ShowTVCandidate ==
    [Title |-> <<"S","h","o","w"," ","T","V">>, SortTitle |-> <<"s","h","o","w"," ","t","v">>,
     Status |-> "ended", Overview |-> "overview-b", Network |-> "net-b",
     Images |-> <<[CoverType |-> "banner", URL |-> "banner-b"]>>,
     Seasons |-> <<[SeasonNumber |-> 1, Monitored |-> TRUE],
                   [SeasonNumber |-> 2, Monitored |-> FALSE]>>,
     Year |-> 2021, TvdbID |-> 102, TitleSlug |-> <<"s","h","o","w","-","t","v">>,
     Genres |-> <<"Drama", "Anime">>]

LookupLists == {<<>>, <<ShowCandidate>>, <<ShowTVCandidate, ShowCandidate>>}

CatalogSeries(id, title, sortTitle, tvdbId) ==
    [ID |-> id, Title |-> title, SortTitle |-> sortTitle, TvdbID |-> tvdbId]

\* The catalogs a run may start against: empty; one whose first series
\* matches "Show" by sort title and second by title; one whose matching
\* series object carries no id (it decodes to ID 0).
InitialCatalogs ==
    {<<>>,
     <<CatalogSeries(3, <<"T","h","e"," ","S","h","o","w">>, <<"s","h","o","w">>, 103),
       CatalogSeries(4, <<"S","H","O","W">>, <<"s","h","o","w">>, 101)>>,
     <<CatalogSeries(0, <<"S","h","o","w">>, <<"s","h","o","w">>, 101)>>}

\* What GET /episode may return for a series (Episode objects).
EpisodeLists(seriesId) ==
    {<<>>,
     <<[ID |-> 21, SeriesID |-> seriesId, SeasonNumber |-> 2, EpisodeNumber |-> 1],
       [ID |-> 22, SeriesID |-> seriesId, SeasonNumber |-> 1, EpisodeNumber |-> 3],
       [ID |-> 23, SeriesID |-> seriesId, SeasonNumber |-> 1, EpisodeNumber |-> 1],
       [ID |-> 24, SeriesID |-> seriesId, SeasonNumber |-> 1, EpisodeNumber |-> 2],
       [ID |-> 25, SeriesID |-> seriesId, SeasonNumber |-> 2, EpisodeNumber |-> 3],
       [ID |-> 26, SeriesID |-> seriesId, SeasonNumber |-> 1, EpisodeNumber |-> 1]>>}

\* An HTTP exchange as the client sees it: httpClient.Do failed (a
\* connection or timeout error), or a status and a body. Json(v) is a body
\* that decodes to v; a body that is not the JSON the caller decodes
\* (Sonarr's error object) is Undecodable.
Json(v) == [decodes |-> TRUE, v |-> v]

Undecodable == [decodes |-> FALSE, v |-> <<>>]

TransportError == [transport |-> TRUE, status |-> 0, body |-> Undecodable]

Response(status, body) == [transport |-> FALSE, status |-> status, body |-> body]

Call(method, endpoint, arg, resp) ==
    [method |-> method, endpoint |-> endpoint, arg |-> arg, resp |-> resp]

GetResponses(lists) ==
    {TransportError, Response(503, Undecodable)} \cup {Response(200, Json(l)) : l \in lists}

\* The ID the catalog gives the next series it creates.
RECURSIVE MaxID(_)
MaxID(cat) ==
    IF cat = <<>> THEN 0
    ELSE LET m == MaxID(Tail(cat)) IN IF Head(cat).ID > m THEN Head(cat).ID ELSE m

\* POST /series: the catalog refuses a series it already holds (by TVDB id)
\* and may refuse any; when it accepts, it stores the series under a new ID
\* and answers with it, in a body the client can or cannot decode.
PostSeriesOutcomes(cat, payload) ==
    LET created == [payload EXCEPT !.ID = MaxID(cat) + 1]
        held == \E k \in 1..Len(cat) : cat[k].TvdbID = payload.TvdbID
    IN {[resp |-> TransportError, catalog |-> cat],
        [resp |-> Response(400, Undecodable), catalog |-> cat]}
       \cup (IF held THEN {}
             ELSE {[resp |-> Response(201, b),
                    catalog |-> Append(cat, CatalogSeries(created.ID, created.Title,
                                                          created.SortTitle, created.TvdbID))]
                   : b \in {Json(created), Undecodable}})

\* PUT /manualimport and POST /command: the body is not read.
CommandResponses ==
    {TransportError, Response(400, Undecodable), Response(202, Json(<<>>))}

(***************************************************************************)
(* The catalog client (main.go: findExistingSeries ... manualImport), each *)
(* as what it returns for the response it gets.                            *)
(***************************************************************************)
RECURSIVE firstSeriesMatch(_, _)
firstSeriesMatch(series, cleanTitle) ==
    IF series = <<>> THEN [err |-> TRUE, id |-> 0]
    ELSE IF ToLower(Head(series).Title) = cleanTitle
            \/ ToLower(Head(series).SortTitle) = cleanTitle
    THEN [err |-> FALSE, id |-> Head(series).ID]
    ELSE firstSeriesMatch(Tail(series), cleanTitle)

\* findExistingSeries: the status is not looked at; err is "series not
\* found", a transport error and a decode error alike.
findExistingSeries(resp, title) ==
    IF resp.transport \/ ~resp.body.decodes THEN [err |-> TRUE, id |-> 0]
    ELSE firstSeriesMatch(resp.body.v, ToLower(TrimSpace(title)))

\* findOrCreateSeries, line 602: the existing series is adopted.
adoptExisting(found) == ~found.err /\ found.id > 0

\* searchSeries
searchSeries(resp) ==
    IF resp.transport \/ ~resp.body.decodes THEN [err |-> TRUE, results |-> <<>>]
    ELSE [err |-> FALSE, results |-> resp.body.v]

\* A choice of the last candidate.
selectLast(seriesOptions) == seriesOptions[Len(seriesOptions)]

\* findOrCreateSeries, line 620: the candidate that is added.
selectSeries(seriesOptions) == seriesOptions[1]

\* addSeries: the Series it posts.
seriesPayload(cfg, seriesLookup) ==
    [ID |-> 0,
     Title |-> seriesLookup.Title,
     SortTitle |-> seriesLookup.SortTitle,
     Status |-> seriesLookup.Status,
     Overview |-> seriesLookup.Overview,
     Network |-> seriesLookup.Network,
     Images |-> seriesLookup.Images,
     Seasons |-> seriesLookup.Seasons,
     Year |-> seriesLookup.Year,
     Path |-> Join(cfg.Sonarr.RootFolder, seriesLookup.TitleSlug),
     QualityProfileID |-> cfg.Sonarr.QualityProfile,
     LanguageProfileID |-> cfg.Sonarr.LanguageProfile,
     SeasonFolder |-> TRUE,
     Monitored |-> TRUE,
     UseSceneNumbering |-> FALSE,
     TvdbID |-> seriesLookup.TvdbID,
     TitleSlug |-> seriesLookup.TitleSlug,
     RootFolderPath |-> cfg.Sonarr.RootFolder,
     Genres |-> seriesLookup.Genres,
     Tags |-> <<>>,
     AddOptions |-> [IgnoreEpisodesWithFiles |-> FALSE,
                     IgnoreEpisodesWithoutFiles |-> FALSE,
                     SearchForMissingEpisodes |-> FALSE]]

Is2xx(resp) == resp.status >= 200 /\ resp.status < 300

\* addSeries: what it returns for the response to its POST.
addSeries(resp) ==
    IF resp.transport \/ ~Is2xx(resp) \/ ~resp.body.decodes
    THEN [err |-> TRUE, id |-> 0]
    ELSE [err |-> FALSE, id |-> resp.body.v.ID]

\* findEpisode: the first episode of the list with this season and number.
RECURSIVE firstEpisodeMatch(_, _, _)
firstEpisodeMatch(episodes, seasonNumber, episodeNumber) ==
    IF episodes = <<>> THEN [err |-> TRUE, id |-> 0]
    ELSE IF Head(episodes).SeasonNumber = seasonNumber
            /\ Head(episodes).EpisodeNumber = episodeNumber
    THEN [err |-> FALSE, id |-> Head(episodes).ID]
    ELSE firstEpisodeMatch(Tail(episodes), seasonNumber, episodeNumber)

\* A lookup by episode number within season 1, whatever the parsed season.
findEpisodeOfFirstSeason(resp, seasonNumber, episodeNumber) ==
    IF resp.transport \/ ~resp.body.decodes THEN [err |-> TRUE, id |-> 0]
    ELSE firstEpisodeMatch(resp.body.v, 1, episodeNumber)

findEpisode(resp, seasonNumber, episodeNumber) ==
    IF resp.transport \/ ~resp.body.decodes THEN [err |-> TRUE, id |-> 0]
    ELSE firstEpisodeMatch(resp.body.v, seasonNumber, episodeNumber)

\* A request whose quality is the one read from the filename.
importPayloadOfQuality(a, sid, eid) ==
    [Files |-> <<[Path |-> a.FilePath,
                  SeriesID |-> sid,
                  SeasonNumber |-> a.Season,
                  Episodes |-> <<eid>>,
                  Quality |-> [ID |-> 1, Name |-> a.Quality],
                  Language |-> [ID |-> 1, Name |-> "English"]]>>]

\* manualImport: the ManualImportRequest it puts.
importPayload(a, sid, eid) ==
    [Files |-> <<[Path |-> a.FilePath,
                  SeriesID |-> sid,
                  SeasonNumber |-> a.Season,
                  Episodes |-> <<eid>>,
                  Quality |-> [ID |-> 1, Name |-> "HDTV-1080p"],
                  Language |-> [ID |-> 1, Name |-> "English"]]>>]

\* manualImport and importToSonarr: the error return for the response.
commandFailed(resp) == resp.transport \/ ~Is2xx(resp)

\* importToSonarr: the command it posts.
commandPayload(filePath) == [name |-> "DownloadedEpisodesScan", path |-> Dir(filePath)]

(***************************************************************************)
(* The program's state.                                                    *)
(***************************************************************************)
VARIABLES
    variant,        \* which program runs: "anime" (main.go) or "basic" (part_000)
    config,         \* the global config, as loadConfig left it
    dryRun,         \* the -dry-run flag
    daemon,         \* DAEMON_MODE = "true"
    catalog,        \* the series the Sonarr catalog holds
    pc,             \* where the program is
    scanNo,         \* the scans started so far
    scanErr,        \* whether the last scan returned an error
    videoFiles,     \* processAnimeFiles / scanAndImport: the files found
    i,              \* the position of the loop over videoFiles
    processed,      \* the loop's count of successes
    file,           \* processAnimeFile / processVideoFile: filePath
    anime,          \* parseAnimeFilename: the record extraction built for file
    seriesID,       \* processAnimeFile: the resolved series
    selectedSeries, \* findOrCreateSeries: the candidate chosen
    episodeID,      \* processAnimeFile: the resolved episode
    calls,          \* history: the HTTP calls made for file, in order
    attempted,      \* history: the files this scan has been through, the record
                    \* extraction built for each, and how each ended
    posted,         \* history: the POST /series calls of this scan
    log,            \* the lines this scan logged about the scan and its files
    tick,           \* runDaemon: a tick waits in ticker.C (a channel of capacity 1)
    accepted        \* history, kept by SpecDaemon alone: the files found that every
                    \* scan since one that had their import accepted has found

vars == <<variant, config, dryRun, daemon, catalog, pc, scanNo, scanErr, videoFiles,
          i, processed, file, anime, seriesID, selectedSeries, episodeID, calls,
          attempted, posted, log, tick, accepted>>

NoAnime ==
    [OriginalFilename |-> <<>>, FilePath |-> <<>>, Title |-> <<>>, Season |-> 0,
     Episode |-> 0, Quality |-> <<>>, Group |-> <<>>, Year |-> 0]

NoSeries == [Title |-> <<>>]

\* Inside processAnimeFile, past the parse and the dry-run return.
WorkflowPcs == {"findExisting", "search", "addSeries", "findEpisode", "manualImport"}

Init ==
    /\ variant \in {"anime", "basic"}
    /\ config \in (IF variant = "anime" THEN {DefaultConfig, NoKeyConfig} ELSE {BasicConfig})
    /\ dryRun \in BOOLEAN
    /\ daemon \in BOOLEAN
    /\ catalog \in InitialCatalogs
    /\ pc = "main"
    /\ scanNo = 0
    /\ scanErr = FALSE
    /\ videoFiles = <<>>
    /\ i = 1
    /\ processed = 0
    /\ file = <<>>
    /\ anime = NoAnime
    /\ seriesID = 0
    /\ selectedSeries = NoSeries
    /\ episodeID = 0
    /\ calls = <<>>
    /\ attempted = <<>>
    /\ posted = <<>>
    /\ log = <<>>
    /\ tick = FALSE
    /\ accepted = {}

(***************************************************************************)
(* A scan: processAnimeFiles (main.go) and scanAndImport (part_000), the   *)
(* same code around a different per-file function.                         *)
(***************************************************************************)
\* The scan returns to main or runDaemon: in daemon mode an error is logged
\* and the ticker is waited for; a single run ends (log.Fatalf on an error).
ScanReturns(err, lines) ==
    /\ scanErr' = err
    /\ log' = lines \o (IF err /\ daemon THEN <<[line |-> "ScanFailed"]>> ELSE <<>>)
    /\ pc' = IF daemon THEN "ticker" ELSE "exit"

\* main's single run, runDaemon's initial scan, or a tick of its ticker: the
\* scan up to its loop.
\* The files of a listing.
Present(found) == {found[k] : k \in DOMAIN found}

\* The scan that ends had the import of f accepted.
Imported(f) == ~dryRun /\ \E k \in DOMAIN attempted : attempted[k].file = f /\ attempted[k].ok

\* A scan per tick, started whatever the program is at.
scanPerTick == tick /\ pc \notin {"main", "exit"}

\* runDaemon, line 239: the loop is at its receive from ticker.C and a tick
\* is there.
receivesTick == tick /\ pc = "ticker"

\* The scan starts; remembered is what the history accepted holds during it.
ScanStarts(remembered) ==
    /\ pc = "main" \/ (receivesTick /\ scanNo < MaxScans)
    /\ scanNo' = scanNo + 1
    /\ i' = 1
    /\ processed' = 0
    /\ file' = <<>>
    /\ anime' = NoAnime
    /\ seriesID' = 0
    /\ selectedSeries' = NoSeries
    /\ episodeID' = 0
    /\ calls' = <<>>
    /\ attempted' = <<>>
    /\ posted' = <<>>
    /\ tick' = FALSE
    /\ UNCHANGED <<variant, config, dryRun, daemon, catalog>>
    /\ IF config.Sonarr.URL = <<>> \/ config.Sonarr.APIKey = <<>>
       THEN videoFiles' = <<>> /\ ScanReturns(TRUE, <<>>)
       ELSE \/ \* the downloads folder is missing, or the walk fails
               videoFiles' = <<>> /\ ScanReturns(TRUE, <<>>)
            \/ \E found \in Listings(config.Sonarr.DownloadsFolder) :
                 /\ videoFiles' = found
                 /\ IF Len(found) = 0
                    THEN ScanReturns(FALSE, <<[line |-> "Found", n |-> 0],
                                              [line |-> "NoFiles"]>>)
                    ELSE /\ scanErr' = FALSE
                         /\ log' = <<[line |-> "Found", n |-> Len(found)]>>
                         /\ pc' = "loop"
    /\ accepted' = remembered

StartScan == ScanStarts({})

\* A loop that a failure breaks out of.
breakOnFailure(ok) == IF ok THEN i + 1 ELSE Len(videoFiles) + 1

\* A loop that stays at the file that failed.
retryOnFailure(ok) == IF ok THEN i + 1 ELSE i

\* The loop's step once the per-file function has returned: the failure is
\* logged and the loop continues, or the success is counted.
nextIndex(ok) == i + 1

FileReturns(f, rec, ok, stage, lines) ==
    /\ attempted' = Append(attempted, [file |-> f, ok |-> ok, anime |-> rec])
    /\ processed' = IF ok THEN processed + 1 ELSE processed
    /\ i' = nextIndex(ok)
    /\ log' = log \o lines
              \o (IF ok THEN <<>>
                  ELSE <<[line |-> "Failed", file |-> Base(f), stage |-> stage]>>)
    /\ pc' = "loop"

\* The loop is over: "Processing complete", return nil.
EndScan ==
    /\ pc = "loop"
    /\ i > Len(videoFiles)
    /\ ScanReturns(FALSE, log \o <<[line |-> "Complete", processed |-> processed,
                                   total |-> Len(videoFiles)]>>)
    /\ UNCHANGED <<accepted, tick, variant, config, dryRun, daemon, catalog, scanNo, videoFiles, i,
                   processed, file, anime, seriesID, selectedSeries, episodeID,
                   calls, attempted, posted>>

(***************************************************************************)
(* processAnimeFile (main.go), one action per HTTP exchange.               *)
(***************************************************************************)
\* A dry-run flag that is not looked at.
flagIgnored(flag) == FALSE

\* A "Parsed:" line with season and episode in each other's place.
parsedLineSwapped(a) ==
    [line |-> "Parsed", file |-> a.FilePath, title |-> a.Title,
     season |-> a.Episode, episode |-> a.Season]

\* A program that returns early for a file it has imported before.
skipsImported(flag) == flag \/ videoFiles[i] \in accepted

\* Line 427: the dry-run return.
dryRunReturns(flag) == flag

\* Line 425: the "Parsed:" line.
parsedLine(a) ==
    [line |-> "Parsed", file |-> a.FilePath, title |-> a.Title,
     season |-> a.Season, episode |-> a.Episode]

\* processAnimeFile from the parse's return to its first catalog call: the
\* error return, the "Parsed:" line and the dry-run return.
AfterParse(f, parsed) ==
    IF ~parsed.ok
    THEN /\ anime' = parsed.anime
         /\ FileReturns(f, parsed.anime, FALSE, "parse", <<>>)
    ELSE /\ anime' = parsed.anime
         /\ IF dryRunReturns(dryRun)
            THEN FileReturns(f, parsed.anime, TRUE, "",
                     <<parsedLine(parsed.anime),
                       [line |-> "DryRun", file |-> f, title |-> parsed.anime.Title]>>)
            ELSE /\ log' = Append(log, parsedLine(parsed.anime))
                 /\ pc' = "findExisting"
                 /\ UNCHANGED <<i, processed, attempted>>

ProcessAnimeFile ==
    /\ variant = "anime"
    /\ pc = "loop"
    /\ i <= Len(videoFiles)
    /\ file' = videoFiles[i]
    /\ calls' = <<>>
    /\ seriesID' = 0
    /\ selectedSeries' = NoSeries
    /\ episodeID' = 0
    /\ AfterParse(videoFiles[i],
                  parseAnimeFilename(config, Base(videoFiles[i]), videoFiles[i]))
    /\ UNCHANGED <<accepted, tick, variant, config, dryRun, daemon, catalog, scanNo, scanErr,
                   videoFiles, posted>>

\* findOrCreateSeries: findExistingSeries, GET /series.
FindExistingSeries ==
    /\ pc = "findExisting"
    /\ \E resp \in GetResponses({catalog}) :
         LET found == findExistingSeries(resp, anime.Title)
         IN /\ calls' = Append(calls, Call("GET", "/series", <<>>, resp))
            /\ IF adoptExisting(found)
               THEN seriesID' = found.id /\ pc' = "findEpisode"
               ELSE seriesID' = seriesID /\ pc' = "search"
    /\ UNCHANGED <<accepted, tick, variant, config, dryRun, daemon, catalog, scanNo, scanErr,
                   videoFiles, i, processed, file, anime, selectedSeries, episodeID,
                   attempted, posted, log>>

\* findOrCreateSeries: searchSeries, GET /series/lookup, and the choice of
\* the candidate.
SearchSeries ==
    /\ pc = "search"
    /\ \E resp \in GetResponses(LookupLists) :
         LET search == searchSeries(resp)
         IN /\ calls' = Append(calls, Call("GET", "/series/lookup", anime.Title, resp))
            /\ IF search.err \/ Len(search.results) = 0
               THEN /\ FileReturns(file, anime, FALSE, "series", <<>>)
                    /\ UNCHANGED selectedSeries
               ELSE /\ selectedSeries' = selectSeries(search.results)
                    /\ pc' = "addSeries"
                    /\ UNCHANGED <<i, processed, attempted, log>>
    /\ UNCHANGED <<accepted, tick, variant, config, dryRun, daemon, catalog, scanNo, scanErr,
                   videoFiles, file, anime, seriesID, episodeID, posted>>

\* findOrCreateSeries: addSeries, POST /series.
AddSeries ==
    /\ pc = "addSeries"
    /\ LET payload == seriesPayload(config, selectedSeries)
       IN \E out \in PostSeriesOutcomes(catalog, payload) :
            LET added == addSeries(out.resp)
            IN /\ calls' = Append(calls, Call("POST", "/series", payload, out.resp))
               /\ posted' = Append(posted, [file |-> file, title |-> anime.Title,
                                            ok |-> ~added.err])
               /\ catalog' = out.catalog
               /\ IF added.err
                  THEN /\ FileReturns(file, anime, FALSE, "series", <<>>)
                       /\ UNCHANGED seriesID
                  ELSE /\ seriesID' = added.id
                       /\ pc' = "findEpisode"
                       /\ UNCHANGED <<i, processed, attempted, log>>
    /\ UNCHANGED <<accepted, tick, variant, config, dryRun, daemon, scanNo, scanErr, videoFiles,
                   file, anime, selectedSeries, episodeID>>

\* findEpisode, GET /episode?seriesId=.
FindEpisode ==
    /\ pc = "findEpisode"
    /\ \E resp \in GetResponses(EpisodeLists(seriesID)) :
         LET found == findEpisode(resp, anime.Season, anime.Episode)
         IN /\ calls' = Append(calls, Call("GET", "/episode", seriesID, resp))
            /\ IF found.err
               THEN /\ FileReturns(file, anime, FALSE, "episode", <<>>)
                    /\ UNCHANGED episodeID
               ELSE /\ episodeID' = found.id
                    /\ pc' = "manualImport"
                    /\ UNCHANGED <<i, processed, attempted, log>>
    /\ UNCHANGED <<accepted, tick, variant, config, dryRun, daemon, catalog, scanNo, scanErr,
                   videoFiles, file, anime, seriesID, selectedSeries, posted>>

\* manualImport, PUT /manualimport, and processAnimeFile's return.
ManualImport ==
    /\ pc = "manualImport"
    /\ \E resp \in CommandResponses :
         /\ calls' = Append(calls, Call("PUT", "/manualimport",
                                        importPayload(anime, seriesID, episodeID), resp))
         /\ IF commandFailed(resp)
            THEN FileReturns(file, anime, FALSE, "import", <<>>)
            ELSE FileReturns(file, anime, TRUE, "",
                             <<[line |-> "Imported", file |-> file, title |-> anime.Title,
                                season |-> anime.Season, episode |-> anime.Episode]>>)
    /\ UNCHANGED <<accepted, tick, variant, config, dryRun, daemon, catalog, scanNo, scanErr,
                   videoFiles, file, anime, seriesID, selectedSeries, episodeID, posted>>

(***************************************************************************)
(* processVideoFile (part_000).                                            *)
(***************************************************************************)
\* processVideoFile up to its dry-run return.
ProcessVideoFile ==
    /\ variant = "basic"
    /\ pc = "loop"
    /\ i <= Len(videoFiles)
    /\ LET f == videoFiles[i]
           transformedName == applyTransforms(config, Base(f))
       IN /\ file' = f
          /\ calls' = <<>>
          /\ IF dryRunReturns(dryRun)
             THEN FileReturns(f, anime, TRUE, "",
                              <<[line |-> "DryRun", file |-> f, title |-> transformedName]>>)
             ELSE /\ pc' = "import"
                  /\ UNCHANGED <<i, processed, attempted, log>>
    /\ UNCHANGED <<accepted, tick, variant, config, dryRun, daemon, catalog, scanNo, scanErr,
                   videoFiles, anime, seriesID, selectedSeries, episodeID, posted>>

\* importToSonarr, POST /command, and processVideoFile's return.
ImportToSonarr ==
    /\ pc = "import"
    /\ LET mappedPath == convertToMappingPath(config, file)
       IN \E resp \in CommandResponses :
            /\ calls' = Append(calls, Call("POST", "/command",
                                           commandPayload(mappedPath), resp))
            /\ IF commandFailed(resp)
               THEN FileReturns(file, anime, FALSE, "import", <<>>)
               ELSE FileReturns(file, anime, TRUE, "",
                        <<[line |-> "Triggered", file |-> file,
                           title |-> applyTransforms(config, Base(file))]>>)
    /\ UNCHANGED <<accepted, tick, variant, config, dryRun, daemon, catalog, scanNo, scanErr,
                   videoFiles, file, anime, seriesID, selectedSeries, episodeID, posted>>

\* The runtime's timer sends on ticker.C; the tick is dropped when one waits
\* already. The ticker exists once the initial scan has returned (line 236).
\* A tick that finds runDaemon waiting is followed while a scan may still
\* start. Nothing reads the channel while a scheduled scan runs, so when
\* during the scan its tick arrives makes no difference: it is let in as the
\* scan's loop ends, the scan still being active.
Tick ==
    /\ daemon
    /\ \/ pc = "ticker" /\ scanNo < MaxScans
       \/ scanNo > 1 /\ pc = "loop" /\ i > Len(videoFiles)
    /\ ~tick
    /\ tick' = TRUE
    /\ UNCHANGED <<accepted, variant, config, dryRun, daemon, catalog, pc, scanNo, scanErr,
                   videoFiles, i, processed, file, anime, seriesID, selectedSeries,
                   episodeID, calls, attempted, posted, log>>

Next ==
    \/ StartScan
    \/ Tick
    \/ ProcessAnimeFile
    \/ FindExistingSeries
    \/ SearchSeries
    \/ AddSeries
    \/ FindEpisode
    \/ ManualImport
    \/ ProcessVideoFile
    \/ ImportToSonarr
    \/ EndScan

Spec == Init /\ [][Next]_vars

(***************************************************************************)
(* The daemon with the history accepted kept: each scan starts knowing the *)
(* files it found that every scan since one that had their import accepted *)
(* has found. The program itself keeps no such record.                     *)
(***************************************************************************)
InitDaemon == Init /\ daemon

StartScanOfDaemon ==
    ScanStarts({f \in Present(videoFiles') : f \in accepted \/ Imported(f)})

NextDaemon ==
    \/ StartScanOfDaemon
    \/ Tick
    \/ ProcessAnimeFile
    \/ FindExistingSeries
    \/ SearchSeries
    \/ AddSeries
    \/ FindEpisode
    \/ ManualImport
    \/ ProcessVideoFile
    \/ ImportToSonarr
    \/ EndScan

SpecDaemon == InitDaemon /\ [][NextDaemon]_vars

(***************************************************************************)
(* parseAnimeFilename on its own: one call, on a name drawn from titles,   *)
(* episode markers and endings, under the default parsing configuration    *)
(* with and without the transforms.                                        *)
(***************************************************************************)
\* The longest generated title part.
MaxTitleLen == 2

TitleChars == {"a", " ", "_", "."}

TitleParts == UNION {[1..n -> TitleChars] : n \in 0..MaxTitleLen}

Markers ==
    {<<"[","0","0","]">>, <<"[","0","1","]">>, <<"[","1","2","]">>,
     <<"S","0","2","E","0","3">>, <<"S","1","E","0","0">>,
     <<"S","e","a","s","o","n"," ","2"," ","[","0","5","]">>,
     <<"S","e","a","s","o","n","_","2","_","[","0","0","]">>,
     <<"2","n","d"," ","S","e","a","s","o","n"," ","[","0","7","]">>,
     <<"E","p"," ","4">>, <<"x">>}

Endings ==
    {<<>>, <<".","m","k","v">>, <<" ","[","G","]",".","m","k","v">>,
     <<" ","S","h","o","w",".","m","k","v">>}

\* The name of the specification's end-to-end scenario.
ScenarioName ==
    <<"S","h","o","w"," ","T","i","t","l","e"," ","-"," ","2","n","d"," ",
      "S","e","a","s","o","n"," ","[","0","7","]"," ","[","G","r","o","u","p","]",
      ".","m","k","v">>

ParseNames ==
    {t \o m \o e : t \in TitleParts, m \in Markers, e \in Endings} \cup {ScenarioName}

InitParse ==
    /\ variant = "anime"
    /\ config \in {DefaultConfig, NoTransformsConfig}
    /\ dryRun = FALSE
    /\ daemon = FALSE
    /\ catalog = <<>>
    /\ pc = "parse"
    /\ scanNo = 0
    /\ scanErr = FALSE
    /\ videoFiles = <<>>
    /\ i = 1
    /\ processed = 0
    /\ file \in ParseNames
    /\ anime = NoAnime
    /\ seriesID = 0
    /\ selectedSeries = NoSeries
    /\ episodeID = 0
    /\ calls = <<>>
    /\ attempted = <<>>
    /\ posted = <<>>
    /\ log = <<>>
    /\ tick = FALSE
    /\ accepted = {}

ParseReturns(parsed) ==
    /\ anime' = parsed.anime
    /\ pc' = IF parsed.ok THEN "parsed" ELSE "parseError"

\* The call parseAnimeFilename(filepath.Base(file), file).
ParseName ==
    /\ pc = "parse"
    /\ ParseReturns(parseAnimeFilename(config, Base(file), file))
    /\ UNCHANGED <<accepted, tick, variant, config, dryRun, daemon, catalog, scanNo, scanErr,
                   videoFiles, i, processed, file, seriesID, selectedSeries,
                   episodeID, calls, attempted, posted, log>>

NextParse == ParseName

SpecParse == InitParse /\ [][NextParse]_vars

(***************************************************************************)
(* applyTransforms on its own: Settings.json holds any list of up to       *)
(* MaxRules rules, some with a search text regexp.Compile rejects, and the *)
(* function is called on a name, in either program.                        *)
(***************************************************************************)
\* The longest transforms list of Settings.json.
MaxRules == 3

\* _ -> " "    \s+ -> " "    ^\s+|\s+$ -> ""    ( -> "a", which does not compile
TransformRules ==
    {DefaultTransforms[1], DefaultTransforms[3], DefaultTransforms[4],
     Transform(Malformed, TText(<<"a">>))}

TransformLists == UNION {[1..n -> TransformRules] : n \in 0..MaxRules}

InitTransforms ==
    /\ variant \in {"anime", "basic"}
    /\ config \in {[DefaultConfig EXCEPT !.Transforms = ts] : ts \in TransformLists}
    /\ dryRun = FALSE
    /\ daemon = FALSE
    /\ catalog = <<>>
    /\ pc = "transform"
    /\ scanNo = 0
    /\ scanErr = FALSE
    /\ videoFiles = <<>>
    /\ i = 1
    /\ processed = 0
    /\ file \in TitleParts
    /\ anime = NoAnime
    /\ seriesID = 0
    /\ selectedSeries = NoSeries
    /\ episodeID = 0
    /\ calls = <<>>
    /\ attempted = <<>>
    /\ posted = <<>>
    /\ log = <<>>
    /\ tick = FALSE
    /\ accepted = {}

\* The call applyTransforms(file); its result is kept as the title.
ApplyTransforms ==
    /\ pc = "transform"
    /\ anime' = [NoAnime EXCEPT !.Title = applyTransforms(config, file)]
    /\ pc' = "transformed"
    /\ UNCHANGED <<accepted, tick, variant, config, dryRun, daemon, catalog, scanNo, scanErr,
                   videoFiles, i, processed, file, seriesID, selectedSeries,
                   episodeID, calls, attempted, posted, log>>

NextTransforms == ApplyTransforms

SpecTransforms == InitTransforms /\ [][NextTransforms]_vars

(***************************************************************************)
(* What the properties below speak of.                                     *)
(***************************************************************************)
\* The anime program is at a file: anime is the record extraction built
\* for it, as it stood at the validation of line 508.
AnimeScan == variant = "anime" /\ file # <<>>

ScanComplete == pc \in {"ticker", "exit"} /\ ~scanErr /\ Len(videoFiles) > 0

LastAttempt == attempted[Len(attempted)]

FileFailed == attempted # <<>> /\ LastAttempt.file = file /\ ~LastAttempt.ok

IsPostSeries(c) == c.method = "POST" /\ c.endpoint = "/series"

Posts == {k \in DOMAIN calls : IsPostSeries(calls[k])}

Lookups == {k \in DOMAIN calls : calls[k].endpoint = "/series/lookup"}

\* The call got no usable answer: a transport error, a body that does not
\* decode, or a status outside 2xx.
CallFailed(c) ==
    \/ c.resp.transport
    \/ ~Is2xx(c.resp)
    \/ (c.endpoint \in {"/series", "/series/lookup", "/episode"} /\ ~c.resp.body.decodes)

\* C1: a file whose extraction ends with an empty title or an episode of 0
\* is an error of the parse and gets no catalog call at all; every record
\* that is inside the catalog workflow has a title and a non-zero episode.
C1_ValidityGate ==
    AnimeScan =>
        /\ (anime.Title = <<>> \/ anime.Episode = 0)
              => calls = <<>> /\ pc \notin WorkflowPcs /\ FileFailed
        /\ (pc \in WorkflowPcs \/ calls # <<>>)
              => anime.Title # <<>> /\ anime.Episode # 0

\* One scan went through a name without a title and a name whose episode is
\* 0, with real imports enabled, and both were turned away.
C1_Witness ==
    /\ variant = "anime" /\ ~dryRun /\ Len(attempted) = 2
    /\ attempted[1].anime.Episode = 0 /\ attempted[1].anime.Title # <<>>
    /\ attempted[2].anime.Title = <<>>
    /\ ~attempted[1].ok /\ ~attempted[2].ok

\* C2: the files a scan has been through are the first files of the
\* listing, each once and in order, whatever the earlier ones ended in; the
\* count of successes is the number of files that returned without error; a
\* file inside the catalog workflow can always take its next step and a
\* finished loop can always report, and a scan that reports has been through
\* every file and returns no error.
C2_BatchIsolation ==
    /\ Len(attempted) <= Len(videoFiles)
    /\ \A k \in 1..Len(attempted) : attempted[k].file = videoFiles[k]
    /\ processed = Cardinality({k \in 1..Len(attempted) : attempted[k].ok})
    /\ pc = "loop" => Len(attempted) = i - 1
    /\ pc \in WorkflowPcs \cup {"import"} => Len(attempted) = i - 1 /\ file = videoFiles[i]
    /\ pc \in WorkflowPcs
          => ENABLED (FindExistingSeries \/ SearchSeries \/ AddSeries \/ FindEpisode
                      \/ ManualImport)
    /\ pc = "loop" /\ i > Len(videoFiles) => ENABLED EndScan
    /\ \A k \in DOMAIN log : log[k].line = "Complete" =>
          /\ k = Len(log) /\ ~scanErr
          /\ Len(attempted) = Len(videoFiles)
          /\ log[k].total = Len(videoFiles)
          /\ log[k].processed = Cardinality({j \in 1..Len(attempted) : attempted[j].ok})

\* A scan over two files reported: the first file failed, the second was
\* still attempted and succeeded, one success is counted.
C2_Witness ==
    /\ ScanComplete /\ Len(videoFiles) = 2
    /\ ~attempted[1].ok /\ attempted[2].ok
    /\ log[Len(log)] = [line |-> "Complete", processed |-> 1, total |-> 2]

\* The catalog holds a series whose title or sort title is the parsed
\* title, letter case aside, and the IDs of such series.
Matches(series, title) ==
    ToLower(series.Title) = ToLower(title) \/ ToLower(series.SortTitle) = ToLower(title)

SeriesExists(title) == \E k \in DOMAIN catalog : Matches(catalog[k], title)

MatchingIDs(title) == {catalog[k].ID : k \in {j \in DOMAIN catalog : Matches(catalog[j], title)}}

\* C3: while the catalog holds a series matching the parsed title, series
\* resolution is one step, from the existing-series lookup to a resolved
\* series with that series' ID, whatever GET /series answered; no
\* GET /series/lookup and no POST /series is made for the file.
C3_AdoptsExisting ==
    [][(AnimeScan /\ pc \in {"findExisting", "search", "addSeries"}
        /\ SeriesExists(anime.Title))
       => /\ pc = "findExisting"
          /\ pc' = "findEpisode"
          /\ seriesID' \in MatchingIDs(anime.Title)
          /\ \A k \in DOMAIN calls' :
                calls'[k].endpoint # "/series/lookup" /\ ~IsPostSeries(calls'[k])]_vars

\* C4: a failed call is the last call of its file, and the file's workflow
\* has not returned otherwise than failed.
C4_FailureIsTerminal ==
    file # <<>> =>
        \A k \in DOMAIN calls :
            CallFailed(calls[k]) => k = Len(calls) /\ (pc \notin WorkflowPcs => FileFailed)

\* C5: within one scan no POST /series is made for a parsed title after a
\* POST /series for the same parsed title has succeeded.
C5_CreatedOnce ==
    \A k, l \in DOMAIN posted :
        (k < l /\ posted[k].title = posted[l].title) => ~posted[k].ok

\* The payload of a POST /series is made of this candidate and the
\* configuration.
TakenFrom(payload, candidate) ==
    /\ payload.Title = candidate.Title
    /\ payload.Images = candidate.Images
    /\ payload.Seasons = candidate.Seasons
    /\ payload.Year = candidate.Year
    /\ payload.TvdbID = candidate.TvdbID
    /\ payload.Genres = candidate.Genres
    /\ payload.TitleSlug = candidate.TitleSlug
    /\ payload.Monitored /\ payload.SeasonFolder
    /\ payload.QualityProfileID = config.Sonarr.QualityProfile
    /\ payload.LanguageProfileID = config.Sonarr.LanguageProfile
    /\ payload.Path = Join(config.Sonarr.RootFolder, candidate.TitleSlug)

YieldsCandidates(c) ==
    ~c.resp.transport /\ c.resp.body.decodes /\ Len(c.resp.body.v) > 0

\* C6: a file gets at most one title search and one POST /series; a search
\* that returns candidates is followed by exactly the POST of the candidate
\* at the head of the list, with the payload built from that candidate and
\* the configuration; a search that returns none is the last call of the
\* file, which fails.
C6_FirstCandidateAdded ==
    AnimeScan =>
        /\ Cardinality(Posts) <= 1 /\ Cardinality(Lookups) <= 1
        /\ \A k \in Posts :
              /\ k > 1 /\ (k - 1) \in Lookups /\ YieldsCandidates(calls[k - 1])
              /\ TakenFrom(calls[k].arg, calls[k - 1].resp.body.v[1])
        /\ \A k \in Lookups :
              IF YieldsCandidates(calls[k])
              THEN IF k = Len(calls)
                   THEN pc = "addSeries" /\ selectedSeries = calls[k].resp.body.v[1]
                   ELSE (k + 1) \in Posts
              ELSE k = Len(calls) /\ pc \notin WorkflowPcs /\ FileFailed

\* A search returned two candidates of different titles and slugs, and the
\* POST that followed was accepted.
C6_Witness ==
    /\ AnimeScan /\ Posts # {}
    /\ \E k \in Posts : Len(calls[k - 1].resp.body.v) = 2 /\ Is2xx(calls[k].resp)

\* The place of a call in the workflow's order.
Rank(c) ==
    IF c.endpoint = "/series" /\ c.method = "GET" THEN 1
    ELSE IF c.endpoint = "/series/lookup" THEN 2
    ELSE IF c.endpoint = "/series" THEN 3
    ELSE IF c.endpoint = "/episode" THEN 4
    ELSE 5

\* The call resolved the series to this ID: an existing series adopted, or
\* a created one.
Resolves(c, id) ==
    /\ ~c.resp.transport /\ c.resp.body.decodes
    /\ \/ /\ c.method = "GET" /\ c.endpoint = "/series" /\ id > 0
          /\ \E k \in DOMAIN c.resp.body.v :
                c.resp.body.v[k].ID = id /\ Matches(c.resp.body.v[k], anime.Title)
       \/ IsPostSeries(c) /\ Is2xx(c.resp) /\ c.resp.body.v.ID = id

\* C7: the calls of a file follow the workflow's order; GET /episode is
\* made for the series ID the call before it resolved; PUT /manualimport
\* comes right after a GET /episode that held an entry of the parsed season
\* and episode, and carries the series ID, the parsed season, that entry's ID
\* alone and the file path; with imports enabled a file counts as a success
\* only on a 2xx answer to its PUT /manualimport.
C7_ForwardOnly ==
    AnimeScan =>
        /\ \A j, k \in DOMAIN calls : j < k => Rank(calls[j]) < Rank(calls[k])
        /\ \A k \in DOMAIN calls : calls[k].endpoint = "/episode" =>
              k > 1 /\ calls[k].arg = seriesID /\ Resolves(calls[k - 1], calls[k].arg)
        /\ \A k \in DOMAIN calls : calls[k].endpoint = "/manualimport" =>
              /\ k > 1 /\ calls[k].method = "PUT"
              /\ calls[k - 1].endpoint = "/episode" /\ calls[k - 1].resp.body.decodes
              /\ Len(calls[k].arg.Files) = 1
              /\ LET f == calls[k].arg.Files[1]
                     episodes == calls[k - 1].resp.body.v
                 IN /\ f.Path = file
                    /\ f.SeriesID = calls[k - 1].arg
                    /\ f.SeasonNumber = anime.Season
                    /\ Len(f.Episodes) = 1
                    /\ \E e \in DOMAIN episodes :
                          /\ episodes[e].ID = f.Episodes[1]
                          /\ episodes[e].SeasonNumber = anime.Season
                          /\ episodes[e].EpisodeNumber = anime.Episode
        /\ (~dryRun /\ attempted # <<>> /\ LastAttempt.file = file /\ LastAttempt.ok)
              => /\ calls # <<>>
                 /\ calls[Len(calls)].endpoint = "/manualimport"
                 /\ ~calls[Len(calls)].resp.transport /\ Is2xx(calls[Len(calls)].resp)
        /\ ~dryRun => processed = Cardinality({k \in DOMAIN log : log[k].line = "Imported"})

\* A file of season 2 was imported into a series created for it, the
\* episode list holding the same episode number in another season first.
C7_Witness ==
    /\ AnimeScan /\ ~dryRun /\ anime.Season = 2
    /\ attempted # <<>> /\ LastAttempt.file = file /\ LastAttempt.ok
    /\ Posts # {}

\* C8: with dry-run on, no POST and no PUT is made, by either program.
C8_DryRunSafety ==
    dryRun => posted = <<>> /\ \A k \in DOMAIN calls : calls[k].method \notin {"POST", "PUT"}

\* A dry-run scan went through two files and counted both.
C8_Witness ==
    dryRun /\ ScanComplete /\ Len(attempted) = 2 /\ processed = 2

\* The "Parsed:" lines of the log that are about this file, and those that
\* carry this record's title, season and episode.
ParsedLines(f) == {k \in DOMAIN log : log[k].line = "Parsed" /\ log[k].file = f}

ParsedAs(a) ==
    {k \in ParsedLines(a.FilePath) :
        log[k].title = a.Title /\ log[k].season = a.Season /\ log[k].episode = a.Episode}

FailedLines(f) == {k \in DOMAIN log : log[k].line = "Failed" /\ log[k].file = Base(f)}

\* C9, as the specification states it: a dry-run scan logs, for every file
\* it has been through, one line with the file's parsed title, season and
\* episode.
C9_LinePerFile ==
    (dryRun /\ variant = "anime") =>
        \A k \in DOMAIN attempted : Cardinality(ParsedAs(attempted[k].anime)) = 1

\* C9, amended: a dry-run scan logs that line, once, for every file whose
\* name yields a title and a non-zero episode; for a file whose name does
\* not, it logs no such line and one line of failure.
C9_LinePerResolvedFile ==
    (dryRun /\ variant = "anime") =>
        \A k \in DOMAIN attempted :
            LET a == attempted[k].anime
                f == attempted[k].file
            IN IF a.Title # <<>> /\ a.Episode # 0
               THEN /\ Cardinality(ParsedLines(f)) = 1
                    /\ ParsedAs(a) = ParsedLines(f)
                    /\ FailedLines(f) = {}
                    /\ attempted[k].ok
               ELSE /\ ParsedLines(f) = {}
                    /\ Cardinality(FailedLines(f)) = 1
                    /\ ~attempted[k].ok

\* A dry-run scan went through a file of season 2, episode 3, and a file
\* whose name yields no title.
C9_Witness ==
    /\ dryRun /\ variant = "anime" /\ ScanComplete /\ Len(attempted) = 2
    /\ attempted[1].anime.Season = 2 /\ attempted[1].anime.Episode = 3
    /\ attempted[2].anime.Title = <<>>

\* The first configured pattern, in order, that matches the normalized
\* name (0 when none does), and what its groups captured there.
Matching(cfg, clean) ==
    {k \in DOMAIN cfg.Parsing.AnimePatterns :
        /\ cfg.Parsing.AnimePatterns[k].Pattern.valid
        /\ FindStringSubmatch(cfg.Parsing.AnimePatterns[k].Pattern, clean) # <<>>}

FirstOf(ks) == IF ks = {} THEN 0 ELSE CHOOSE k \in ks : \A j \in ks : k <= j

Captured(pattern, clean) ==
    LET groups == FindStringSubmatch(pattern.Pattern, clean)
    IN [title |-> groups[pattern.TitleGroup + 1],
        season |-> IF pattern.SeasonGroup = 0 THEN 1
                   ELSE DigitsValue(groups[pattern.SeasonGroup + 1]),
        episode |-> DigitsValue(groups[pattern.EpisodeGroup + 1])]

\* What the call returned, against what the first matching pattern captured.
ReturnsAs(P(_)) ==
    pc \in {"parsed", "parseError"} =>
        LET clean == cleanNameOf(config, Base(file))
            first == FirstOf(Matching(config, clean))
        IN first # 0 => P(Captured(config.Parsing.AnimePatterns[first], clean))

CapturesReturned(c) ==
    /\ pc = "parsed"
    /\ anime.Title = c.title /\ anime.Season = c.season /\ anime.Episode = c.episode

CapturesReturnedWhenResolvable(c) ==
    /\ anime.Season = c.season
    /\ pc = "parseError" <=> (anime.Title = <<>> \/ anime.Episode = 0)
    /\ TrimSpace(c.title) # <<>> =>
          /\ anime.Title = TrimSpace(c.title) /\ anime.Episode = c.episode
          /\ pc = "parsed" <=> c.episode # 0

BracketedNumber(clean) ==
    LET m == FindFrom(DefaultEpisodePatterns[1], clean, 1)
    IN [found |-> m.ok,
        at |-> m.start,
        n |-> IF m.ok THEN DigitsValue(CapText(clean, m.caps[1])) ELSE 0]

\* C11: a name that no structured pattern matches and that holds a
\* bracketed number [n] is parsed, wherever the bracket sits: episode n,
\* season 1, and as title what stands in front of the bracket, which is
\* not empty.
C11_BracketFallback ==
    pc \in {"parsed", "parseError"} =>
        LET clean == cleanNameOf(config, Base(file))
            b == BracketedNumber(clean)
        IN (Matching(config, clean) = {} /\ b.found) =>
              /\ pc = "parsed"
              /\ anime.Episode = b.n
              /\ anime.Season = 1
              /\ anime.Title # <<>>
              /\ anime.Title = TrimSpace(SubSeq(clean, 1, b.at - 1))

\* C12: under the default configuration the scenario's name is parsed
\* through the first structured pattern into title "Show Title", season 2,
\* episode 7 and release group "Group".
C12_Scenario ==
    (pc \in {"parsed", "parseError"} /\ file = ScenarioName /\ config = DefaultConfig) =>
        /\ pc = "parsed"
        /\ FirstOf(Matching(config, cleanNameOf(config, Base(file)))) = 1
        /\ anime.Title = <<"S","h","o","w"," ","T","i","t","l","e">>
        /\ anime.Season = 2
        /\ anime.Episode = 7
        /\ anime.Group = <<"G","r","o","u","p">>

\* A scan is active: it has started and not returned.
ScanActive == pc \in WorkflowPcs \cup {"loop", "import"}

\* C13: a scan starts only while no scan is active: from main, or from
\* runDaemon's wait once the scan before it has returned; a tick that
\* arrives during a scan waits. A scan that returned an error in daemon
\* mode is logged, the program does not exit, and the next tick still
\* starts a scan.
C13_OneScanAtATime ==
    /\ [](daemon => pc # "exit")
    /\ []((daemon /\ pc = "ticker" /\ scanErr) => log[Len(log)].line = "ScanFailed")
    /\ []((daemon /\ pc = "ticker" /\ tick /\ scanNo < MaxScans) => ENABLED StartScan)
    /\ [][/\ scanNo' # scanNo => ~ScanActive /\ scanNo' = scanNo + 1
          /\ (ScanActive /\ ScanActive') => scanNo' = scanNo]_vars

\* A tick waits while the second scan of a daemon is still in its loop.
C13_Witness == daemon /\ tick /\ ScanActive /\ scanNo = 2 /\ scanNo < MaxScans

\* The configured patterns that match the normalized name with a title
\* group that holds more than whitespace.
Titled(cfg, clean) ==
    {k \in Matching(cfg, clean) :
        TrimSpace(Captured(cfg.Parsing.AnimePatterns[k], clean).title) # <<>>}

SelectedAs(P(_), fallbackSeason) ==
    pc \in {"parsed", "parseError"} =>
        LET clean == cleanNameOf(config, Base(file))
            first == FirstOf(Titled(config, clean))
        IN IF first # 0
           THEN P(Captured(config.Parsing.AnimePatterns[first], clean))
           ELSE anime.Season = fallbackSeason

TrimmedCapture(c) ==
    anime.Title = TrimSpace(c.title) /\ anime.Season = c.season /\ anime.Episode = c.episode

\* C14: title, season and episode of the record are those of the first
\* pattern, in configured order, that matches with a title group that is
\* not empty once trimmed; when there is no such pattern the fallback is
\* taken and the season is the default, 1.
C14_FirstTitledPattern == SelectedAs(TrimmedCapture, 1)

\* The rules of a list that compile, in their order.
WellFormed(transforms) == SelectSeq(transforms, LAMBDA t : t.Search.valid)

\* Rule n applied to what rules 1..n-1 made of the input.
RECURSIVE Pipeline(_, _, _)
Pipeline(transforms, n, input) ==
    IF n = 0 THEN input
    ELSE ReplaceAllString(transforms[n].Search, Pipeline(transforms, n - 1, input),
                          transforms[n].Replace)

\* C15: applyTransforms returns what the rules that compile make of the
\* input when applied in list order, each to the output of the ones before
\* it; a rule that does not compile is skipped and changes nothing.
C15_TransformPipeline ==
    pc = "transformed" =>
        anime.Title = Pipeline(WellFormed(config.Transforms),
                               Len(WellFormed(config.Transforms)), file)

\* A rule that does not compile stands before two that do and whose order
\* shows in the result.
C15_Witness ==
    /\ pc = "transformed"
    /\ Len(config.Transforms) = 3
    /\ ~config.Transforms[1].Search.valid
    /\ config.Transforms[2].Search.valid
    /\ config.Transforms[3].Search.valid
    /\ anime.Title # file
    /\ anime.Title # Pipeline(<<config.Transforms[3], config.Transforms[2]>>, 2, file)

\* C16: within a scan no file is attempted twice, and the calls made for a
\* file hold each request (GET /series, GET /series/lookup, POST /series,
\* GET /episode, PUT /manualimport; POST /command in the basic program) at
\* most once, whatever the answers were.
C16_NoRetry ==
    /\ \A k, l \in DOMAIN attempted : k # l => attempted[k].file # attempted[l].file
    /\ \A k, l \in DOMAIN calls :
          k # l => <<calls[k].method, calls[k].endpoint>> # <<calls[l].method, calls[l].endpoint>>
    /\ Len(calls) <= 5
    /\ pc = "loop" /\ attempted # <<>> => i = Len(attempted) + 1

\* The second file of a scan failed at its import, the last of five calls,
\* after the first file had failed as well, and the loop is past both.
C16_Witness ==
    /\ AnimeScan /\ FileFailed /\ Len(attempted) = 2 /\ ~attempted[1].ok
    /\ Len(calls) = 5 /\ CallFailed(calls[5])
    /\ pc = "loop" /\ i = 3

\* The records that agree with a on file path, title, season and episode.
Relabelled(a) ==
    {[a EXCEPT !.Quality = q, !.Group = g] :
        q \in {Unknown, DefaultQualityPatterns[1]}, g \in {Unknown, <<"G">>}}

Request(method, endpoint, arg) == [method |-> method, endpoint |-> endpoint, arg |-> arg]

NoRequest == Request("", "", <<>>)

SameRequest(c, q) == c.method = q.method /\ c.endpoint = q.endpoint /\ c.arg = q.arg

AfterGetSeries(r, found) ==
    IF adoptExisting(found) THEN Request("GET", "/episode", found.id)
    ELSE Request("GET", "/series/lookup", r.Title)

AfterLookup(search) ==
    IF search.err \/ Len(search.results) = 0 THEN NoRequest
    ELSE Request("POST", "/series", seriesPayload(config, selectSeries(search.results)))

AfterPost(added) == IF added.err THEN NoRequest ELSE Request("GET", "/episode", added.id)

AfterGetEpisode(r, sid, found) ==
    IF found.err THEN NoRequest
    ELSE Request("PUT", "/manualimport", importPayload(r, sid, found.id))

\* The request that the workflow makes for record r once call c is
\* answered, or none.
RequestAfter(r, c) ==
    IF c.endpoint = "/series" /\ c.method = "GET"
    THEN AfterGetSeries(r, findExistingSeries(c.resp, r.Title))
    ELSE IF c.endpoint = "/series/lookup" THEN AfterLookup(searchSeries(c.resp))
    ELSE IF c.endpoint = "/series" THEN AfterPost(addSeries(c.resp))
    ELSE IF c.endpoint = "/episode"
    THEN AfterGetEpisode(r, c.arg, findEpisode(c.resp, r.Season, r.Episode))
    ELSE NoRequest

\* C17: the requests made for a file, and where they end, are those of
\* every record with its file path, title, season and episode, whatever
\* that record's quality and group, given the same answers; the import
\* request carries quality 1 "HDTV-1080p" and language 1 "English".
C17_QualityGroupBlind ==
    (AnimeScan /\ calls # <<>>) =>
        /\ \A r \in Relabelled(anime) :
              /\ SameRequest(calls[1], Request("GET", "/series", <<>>))
              /\ \A k \in 2..Len(calls) :
                    SameRequest(calls[k], RequestAfter(r, calls[k - 1]))
              /\ pc \in WorkflowPcs <=> RequestAfter(r, calls[Len(calls)]) # NoRequest
        /\ \A k \in DOMAIN calls : calls[k].endpoint = "/manualimport" =>
              /\ calls[k].arg.Files[1].Quality = [ID |-> 1, Name |-> "HDTV-1080p"]
              /\ calls[k].arg.Files[1].Language = [ID |-> 1, Name |-> "English"]

\* A file whose name holds the quality 720p has been imported.
C17_Witness ==
    /\ AnimeScan /\ anime.Quality = DefaultQualityPatterns[2]
    /\ Len(calls) >= 3 /\ calls[Len(calls)].endpoint = "/manualimport"
    /\ attempted # <<>> /\ LastAttempt.file = file /\ LastAttempt.ok

\* The scan has been through file f.
Attempted(f) == \E k \in DOMAIN attempted : attempted[k].file = f

\* C18: a file whose import an earlier scan saw accepted and that is found
\* again is gone through like a new one: the scan that finds it attempts
\* it, its workflow starts with no series and no episode resolved and asks
\* for the series first, and it returns without error only after a new
\* PUT /manualimport (POST /command in the basic program) for it.
C18_NothingRemembered ==
    /\ \A f \in accepted : \E k \in DOMAIN videoFiles : videoFiles[k] = f
    /\ (pc = "ticker" /\ ~scanErr) => \A f \in accepted : Attempted(f)
    /\ (file \in accepted /\ pc = "findExisting") =>
          seriesID = 0 /\ episodeID = 0 /\ calls = <<>>
    /\ (file \in accepted /\ Attempted(file) /\ variant = "anime") =>
          /\ calls # <<>>
          /\ SameRequest(calls[1], Request("GET", "/series", <<>>))
          /\ LastAttempt.file = file /\ LastAttempt.ok =>
                /\ \E k \in DOMAIN calls : calls[k].endpoint = "/episode"
                /\ calls[Len(calls)].method = "PUT"
                /\ calls[Len(calls)].endpoint = "/manualimport"
                /\ calls[Len(calls)].arg.Files[1].Path = file
    /\ (file \in accepted /\ Attempted(file) /\ variant = "basic") =>
          /\ Len(calls) = 1
          /\ calls[1].method = "POST" /\ calls[1].endpoint = "/command"

\* A later scan of the daemon has imported a file again that an earlier
\* scan had imported.
C18_Witness ==
    /\ daemon /\ scanNo >= 2 /\ AnimeScan /\ file \in accepted
    /\ attempted # <<>> /\ LastAttempt.file = file /\ LastAttempt.ok
    /\ calls # <<>>
    /\ calls[Len(calls)].endpoint = "/manualimport" /\ ~CallFailed(calls[Len(calls)])

=============================================================================
